---- MODULE Spec2Model ----
(***************************************************************************)
(* Curiata CargoOps (src/src/App.jsx): the ledger kept in localStorage     *)
(* under STORAGE_KEY, the pages that read it at mount and write the whole  *)
(* document back at save, and the inventory reconciliation done by         *)
(* ReceiptPage.save and DispatchPage.save.                                 *)
(*                                                                         *)
(* Numbers.  Quantities are integers.  Weights are floats with one decimal *)
(* in the source; here they are integers counting fixed-point units, so    *)
(* floating-point rounding is outside the model.  Three values of          *)
(* JavaScript that are not numbers are encoded as integers far below every *)
(* number the model computes: Str (the text of a form field that is not a  *)
(* number), NaN and Null (what JSON.stringify writes for NaN).             *)
(*                                                                         *)
(* Three specifications.  Spec is the ledger of receipts, dispatches and   *)
(* inventory under a signed-in administrator.  AppSpec is the whole        *)
(* application around a seeded store: sign-in, forgot password, user       *)
(* invites, the two forms under their role guards, the transport log and   *)
(* the two interval timers.  CsvSpec applies exportCSV to small tables.    *)
(***************************************************************************)
EXTENDS Integers, Sequences, FiniteSets, TLC

\* ---------------------------------------------------------------- bounds
\* Form and seed quantities are drawn from 0..MaxQty, weights from 0..MaxWeight.
MaxQty == 2
MaxWeight == 1
\* At most MaxSaves records are submitted through the two forms in one run.
MaxSaves == 2
\* At most MaxWrites documents are written by the other operations of the
\* application (invites, temporary passwords, trips) in one run.
MaxWrites == 3
\* An exported table has at most MaxRows rows, and a value of its longer
\* field at most MaxLen characters.
MaxRows == 2
MaxLen == 2

\* The cargo ids in play ("CG-100".."CG-999" in the source) and the time stamps.
CargoIds == {"CG-1", "CG-2"}
Times == {1, 2}

\* ------------------------------------------------------ JavaScript values
Str == -1001
NaN == -1002
Null == -1003

\* Number(v) of a form field: its number, or NaN for text that is no number.
Number(v) == IF v = Str THEN NaN ELSE v

\* ToNumber, the coercion of an operand of + and - : null counts as 0.
ToNumber(v) == IF v = Null THEN 0 ELSE IF v = Str THEN NaN ELSE v

\* a + b and a - b on numbers (inv.quantity += ..., inv.quantity - ...).
JsAdd(a, b) ==
    IF ToNumber(a) = NaN \/ ToNumber(b) = NaN THEN NaN ELSE ToNumber(a) + ToNumber(b)

JsSub(a, b) ==
    IF ToNumber(a) = NaN \/ ToNumber(b) = NaN THEN NaN ELSE ToNumber(a) - ToNumber(b)

\* -v (MovementDrawer: qty: -d.qty_packed).
JsNeg(v) == IF ToNumber(v) = NaN THEN NaN ELSE 0 - ToNumber(v)

\* Mutant: no floor at zero.
MathMax0_NoClamp(x) == x

\* Math.max(0, x): NaN if x is NaN.
MathMax0(x) == IF x = NaN THEN NaN ELSE IF x > 0 THEN x ELSE 0

\* JSON.stringify followed by JSON.parse of a number: NaN comes back as null.
JsonNumber(v) == IF v = NaN THEN Null ELSE v

\* ------------------------------------------------------------ the ledger
InvStatuses == {"Bonded", "FAK", "On Site", "In Transit"}

\* user.tempPassword: null, and db.passwords[email] of an email without entry.
NoTemp == "(null)"
NoPassword == "(undefined)"

\* The emails in play: the three seeded users' and one that is not seeded.
SeedEmails == {"admin@curiata.dev", "supervisor@curiata.dev", "viewer@curiata.dev"}
Emails == SeedEmails \cup {"new@curiata.dev"}

EmptyDB ==
    [warehouse_receipts |-> <<>>, dispatches |-> <<>>, inventory_snapshot |-> <<>>,
     transport_trips |-> <<>>, users |-> <<>>, passwords |-> [e \in Emails |-> NoPassword]]

\* Mutant: the search never finds the snapshot.
FindInv_None(inv, c) == 0

\* Array.prototype.find on inventory_snapshot: the index of the first snapshot
\* of the cargo id, 0 when there is none.
FindInv(inv, c) ==
    IF \E i \in 1..Len(inv) : inv[i].cargo_id = c
    THEN CHOOSE i \in 1..Len(inv) :
            /\ inv[i].cargo_id = c
            /\ \A j \in 1..(i - 1) : inv[j].cargo_id # c
    ELSE 0

\* setDB / getDB: the document goes through JSON.stringify and JSON.parse.
JsonSnap(i) == [i EXCEPT !.quantity = JsonNumber(@), !.weight_kg = JsonNumber(@)]

JsonInv(inv) == [i \in 1..Len(inv) |-> JsonSnap(inv[i])]

JsonDB(db) == [db EXCEPT !.inventory_snapshot = JsonInv(@)]

VARIABLES storage, route, db, selected, crashed, saves, nextUid, lastSave, before,
          auth, err, timers, table, csv

vars == <<storage, route, db, selected, crashed, saves, nextUid, lastSave, before,
          auth, err, timers, table, csv>>

\* ------------------------------------------------------------------ seed
\* Array.from({ length: n }).map(f): the sequences of length n over a set.
ArrayFrom(n, S) == [1..n -> S]

\* numberBetween(min, max, 1): some value from min to max.
numberBetween(min, max) == min..max

\* The seeded record counts (50 receipts and 20 dispatches in the source) and
\* the +-50 spread of a seeded snapshot's weight, scaled to the model's sizes.
SeedReceipts == 1
SeedDispatches == 1
SeedSpread == 1
SeedTimes == {1}
\* Which cargo ids the seed draws is symmetric in the ids: the seeded receipts
\* take theirs here and the other ids of CargoIds start without a snapshot.
SeedCargoIds == {"CG-1"}
\* The cargo ids that start without a snapshot and with no record.
FreshCargoIds == CargoIds \ SeedCargoIds
\* The seeded trips (30 in the source) and the status the seed draws for them.
SeedTrips == 1
SeedTripStatuses == {"Idle"}

Max0(x) == IF x > 0 THEN x ELSE 0

RECURSIVE SumSeq(_)
SumSeq(s) == IF Len(s) = 0 THEN 0 ELSE Head(s) + SumSeq(Tail(s))

\* The sum of a numeric field over the records of one cargo id.
ReceiptQty(rs, c) ==
    SumSeq([i \in 1..Len(rs) |-> IF rs[i].cargo_id = c THEN rs[i].quantity ELSE 0])
ReceiptWeight(rs, c) ==
    SumSeq([i \in 1..Len(rs) |-> IF rs[i].cargo_id = c THEN rs[i].weight_kg ELSE 0])
DispatchQty(ds, c) ==
    SumSeq([i \in 1..Len(ds) |-> IF ds[i].cargo_id = c THEN ds[i].qty_packed ELSE 0])
DispatchWeight(ds, c) ==
    SumSeq([i \in 1..Len(ds) |-> IF ds[i].cargo_id = c THEN ds[i].total_weight_kg ELSE 0])

\* The seeded receipts: cargo id, date, quantity rand(1, 200) and a weight
\* numberBetween(quantity * 5, quantity * 10), one fixed-point unit being taken
\* so that the draw is from quantity to quantity.
SeedReceiptRows ==
    UNION { { [id |-> 0, cargo_id |-> c, date_in |-> t, indent_number |-> 0,
               quantity |-> q, weight_kg |-> w] :
                c \in SeedCargoIds, t \in SeedTimes, w \in numberBetween(q, q) } :
            q \in 1..MaxQty }

\* The seeded dispatches: the cargo id is that of one of the seeded receipts.
SeedDispatchRows(rs) ==
    UNION { { [id |-> 0, cargo_id |-> rs[k].cargo_id, container_no |-> 0,
               date_dispatched |-> t, qty_packed |-> q, total_weight_kg |-> w] :
                k \in 1..Len(rs), t \in SeedTimes, w \in numberBetween(q, q) } :
            q \in 1..MaxQty }

\* Object.entries(byCargo): the cargo ids in the order of their first receipt.
RECURSIVE ByCargoKeys(_)
ByCargoKeys(rs) ==
    IF Len(rs) = 0 THEN <<>>
    ELSE LET init == ByCargoKeys(SubSeq(rs, 1, Len(rs) - 1))
             c == rs[Len(rs)].cargo_id
         IN  IF \E i \in 1..Len(init) : init[i] = c THEN init ELSE Append(init, c)

\* byCargo[c].last_movement: the last dispatch's date, else the last receipt's.
SeedLastMovement(rs, ds, c) ==
    LET di == { i \in 1..Len(ds) : ds[i].cargo_id = c }
        ri == { i \in 1..Len(rs) : rs[i].cargo_id = c }
    IN  IF di # {}
        THEN ds[CHOOSE i \in di : \A j \in di : j <= i].date_dispatched
        ELSE rs[CHOOSE i \in ri : \A j \in ri : j <= i].date_in

\* The snapshots the seed can produce for one cargo id.
SeedSnapshots(rs, ds, c) ==
    LET q == ReceiptQty(rs, c) - DispatchQty(ds, c)
        w == ReceiptWeight(rs, c) - DispatchWeight(ds, c)
    IN  { [id |-> 0, cargo_id |-> c, status |-> s, quantity |-> Max0(q),
           weight_kg |-> Max0(x), last_movement |-> SeedLastMovement(rs, ds, c)] :
            s \in (IF q <= 0 THEN {"Dispatched"} ELSE InvStatuses),
            x \in numberBetween(Max0(w - SeedSpread), Max0(w + SeedSpread)) }

\* The seeded trips, the first uid drawn for them being n.
SeedTripRows(n) ==
    [i \in 1..SeedTrips |->
        [id |-> n + i - 1, trip_status |-> CHOOSE x \in SeedTripStatuses : TRUE]]

\* The three seeded users and their passwords.
SeedUsers(n) ==
    << [id |-> n, email |-> "admin@curiata.dev", role |-> "Admin",
        name |-> "Admin User", tempPassword |-> NoTemp],
       [id |-> n + 1, email |-> "supervisor@curiata.dev", role |-> "Supervisor",
        name |-> "Ops Supervisor", tempPassword |-> NoTemp],
       [id |-> n + 2, email |-> "viewer@curiata.dev", role |-> "Viewer",
        name |-> "Read Only", tempPassword |-> NoTemp] >>

\* Mutant: the viewer is seeded with another password than the documented one.
SeedPasswords_Other ==
    [e \in Emails |->
        IF e = "admin@curiata.dev" THEN "admin123"
        ELSE IF e = "supervisor@curiata.dev" THEN "super123"
        ELSE IF e = "viewer@curiata.dev" THEN "viewer123"
        ELSE NoPassword]

SeedPasswords ==
    [e \in Emails |->
        IF e = "admin@curiata.dev" THEN "admin123"
        ELSE IF e = "supervisor@curiata.dev" THEN "super123"
        ELSE IF e = "viewer@curiata.dev" THEN "view123"
        ELSE NoPassword]

\* uid(): a fresh identifier; the n-th identifier drawn is n.  The random
\* indent and container numbers are modelled as fresh in the same way.
WithUids(rs, ds, inv, n) ==
    [warehouse_receipts |->
        [i \in 1..Len(rs) |-> [rs[i] EXCEPT !.id = n + i - 1, !.indent_number = n + i - 1]],
     dispatches |->
        [i \in 1..Len(ds) |->
            [ds[i] EXCEPT !.id = n + Len(rs) + i - 1, !.container_no = n + Len(rs) + i - 1]],
     inventory_snapshot |->
        [i \in 1..Len(inv) |-> [inv[i] EXCEPT !.id = n + Len(rs) + Len(ds) + i - 1]],
     transport_trips |-> SeedTripRows(n + Len(rs) + Len(ds) + Len(inv)),
     users |-> SeedUsers(n + Len(rs) + Len(ds) + Len(inv) + SeedTrips),
     passwords |-> SeedPasswords]

\* The documents seedIfNeeded can write, the first uid drawn being n.
SeedDocuments(n) ==
    UNION { UNION { { WithUids(rs, ds, inv, n) :
                        inv \in { f \in [1..Len(ByCargoKeys(rs)) ->
                                          UNION { SeedSnapshots(rs, ds, rs[k].cargo_id) : k \in 1..Len(rs) }] :
                                    \A i \in 1..Len(ByCargoKeys(rs)) :
                                        f[i] \in SeedSnapshots(rs, ds, ByCargoKeys(rs)[i]) } } :
                    ds \in ArrayFrom(SeedDispatches, SeedDispatchRows(rs)) } :
            rs \in ArrayFrom(SeedReceipts, SeedReceiptRows) }

\* Mutant: the guard of seedIfNeeded never returns early.
Falsy_Always(st) == TRUE

\* localStorage.getItem(STORAGE_KEY) is falsy: no item, or the empty string.
Falsy(st) == st.kind \in {"missing", "empty"}

\* seedIfNeeded(): returns at once when the item is truthy, else writes doc.
seedIfNeeded(st, doc) == IF Falsy(st) THEN [kind |-> "doc", db |-> JsonDB(doc)] ELSE st

\* getDB(): seedIfNeeded(), then JSON.parse of the item, which throws on text
\* that is not JSON.
getDBThrows(st, doc) == seedIfNeeded(st, doc).kind = "unparseable"
getDB(st, doc) == seedIfNeeded(st, doc).db

\* setDB(db)
setDB(d) == [kind |-> "doc", db |-> JsonDB(d)]

\* ------------------------------------------------------------- the forms
\* What a quantity field can hold when the form is submitted (the inputs are
\* plain text inputs, marked required): a number >= 0, a negative number, or
\* text that is no number.  Weight fields are drawn from the numbers >= 0.
FormQuantities == (0..MaxQty) \cup {0 - 1, Str}
FormWeights == 0..MaxWeight

NoForm == [cargo_id |-> "", date |-> 0, quantity |-> 0, weight |-> 0]
Closed == [open |-> FALSE, cargo_id |-> "", rows |-> <<>>]

\* Mutant: the save rewrites the quantity of the receipts already stored.
ReceiptSaveNext_Rewrite(d, newRec, u) ==
    LET found == FindInv(d.inventory_snapshot, newRec.cargo_id)
        inv0 == IF found = 0
                THEN Append(d.inventory_snapshot,
                            [id |-> u, cargo_id |-> newRec.cargo_id, status |-> "On Site",
                             quantity |-> 0, weight_kg |-> 0,
                             last_movement |-> newRec.date_in])
                ELSE d.inventory_snapshot
        i == IF found = 0 THEN Len(inv0) ELSE found
    IN  [d EXCEPT
            !.warehouse_receipts =
                <<newRec>> \o [k \in 1..Len(@) |-> [@[k] EXCEPT !.quantity = 0]],
            !.inventory_snapshot =
                [inv0 EXCEPT ![i] =
                    [@ EXCEPT !.quantity = JsAdd(@, Number(newRec.quantity)),
                              !.weight_kg = JsAdd(@, Number(newRec.weight_kg)),
                              !.status = "On Site",
                              !.last_movement = newRec.date_in]]]

\* Mutant: the receipt leaves the status of an existing snapshot as it was.
ReceiptSaveNext_KeepStatus(d, newRec, u) ==
    LET found == FindInv(d.inventory_snapshot, newRec.cargo_id)
        inv0 == IF found = 0
                THEN Append(d.inventory_snapshot,
                            [id |-> u, cargo_id |-> newRec.cargo_id, status |-> "On Site",
                             quantity |-> 0, weight_kg |-> 0,
                             last_movement |-> newRec.date_in])
                ELSE d.inventory_snapshot
        i == IF found = 0 THEN Len(inv0) ELSE found
    IN  [d EXCEPT
            !.warehouse_receipts = <<newRec>> \o @,
            !.inventory_snapshot =
                [inv0 EXCEPT ![i] =
                    [@ EXCEPT !.quantity = JsAdd(@, Number(newRec.quantity)),
                              !.weight_kg = JsAdd(@, Number(newRec.weight_kg)),
                              !.last_movement = newRec.date_in]]]

\* ReceiptPage.save(newRec) on the page's db: the next document.
ReceiptSaveNext(d, newRec, u) ==
    LET found == FindInv(d.inventory_snapshot, newRec.cargo_id)
        inv0 == IF found = 0
                THEN Append(d.inventory_snapshot,
                            [id |-> u, cargo_id |-> newRec.cargo_id, status |-> "On Site",
                             quantity |-> 0, weight_kg |-> 0,
                             last_movement |-> newRec.date_in])
                ELSE d.inventory_snapshot
        i == IF found = 0 THEN Len(inv0) ELSE found
    IN  [d EXCEPT
            !.warehouse_receipts = <<newRec>> \o @,
            !.inventory_snapshot =
                [inv0 EXCEPT ![i] =
                    [@ EXCEPT !.quantity = JsAdd(@, Number(newRec.quantity)),
                              !.weight_kg = JsAdd(@, Number(newRec.weight_kg)),
                              !.status = "On Site",
                              !.last_movement = newRec.date_in]]]

\* Mutant: every dispatch marks the snapshot "Dispatched".
DispatchSaveNext_AlwaysDispatched(d, newD) ==
    LET i == FindInv(d.inventory_snapshot, newD.cargo_id)
        q == MathMax0(JsSub(d.inventory_snapshot[i].quantity, Number(newD.qty_packed)))
        w == MathMax0(JsSub(d.inventory_snapshot[i].weight_kg, Number(newD.total_weight_kg)))
    IN  [d EXCEPT
            !.dispatches = <<newD>> \o @,
            !.inventory_snapshot =
                IF i = 0 THEN @
                ELSE [@ EXCEPT ![i] =
                        [@ EXCEPT !.quantity = q,
                                  !.weight_kg = w,
                                  !.status = "Dispatched",
                                  !.last_movement = newD.date_dispatched]]]

\* Mutant: a dispatch of more than is on hand is recorded but not applied.
DispatchSaveNext_Reject(d, newD) ==
    LET i == FindInv(d.inventory_snapshot, newD.cargo_id)
        over == JsSub(d.inventory_snapshot[i].quantity, Number(newD.qty_packed)) < 0
        q == MathMax0(JsSub(d.inventory_snapshot[i].quantity, Number(newD.qty_packed)))
        w == MathMax0(JsSub(d.inventory_snapshot[i].weight_kg, Number(newD.total_weight_kg)))
    IN  [d EXCEPT
            !.dispatches = <<newD>> \o @,
            !.inventory_snapshot =
                IF i = 0 \/ over THEN @
                ELSE [@ EXCEPT ![i] =
                        [@ EXCEPT !.quantity = q,
                                  !.weight_kg = w,
                                  !.status = IF q = 0 THEN "Dispatched" ELSE @,
                                  !.last_movement = newD.date_dispatched]]]

\* Mutant: a dispatch of a cargo id without a snapshot creates one, at zero.
DispatchSaveNext_Upsert(d, newD) ==
    LET i == FindInv(d.inventory_snapshot, newD.cargo_id)
        q == MathMax0(JsSub(d.inventory_snapshot[i].quantity, Number(newD.qty_packed)))
        w == MathMax0(JsSub(d.inventory_snapshot[i].weight_kg, Number(newD.total_weight_kg)))
    IN  [d EXCEPT
            !.dispatches = <<newD>> \o @,
            !.inventory_snapshot =
                IF i = 0
                THEN Append(@, [id |-> newD.id, cargo_id |-> newD.cargo_id,
                                status |-> "Dispatched", quantity |-> 0, weight_kg |-> 0,
                                last_movement |-> newD.date_dispatched])
                ELSE [@ EXCEPT ![i] =
                        [@ EXCEPT !.quantity = q,
                                  !.weight_kg = w,
                                  !.status = IF q = 0 THEN "Dispatched" ELSE @,
                                  !.last_movement = newD.date_dispatched]]]

\* DispatchPage.save(newD) on the page's db: the next document.
DispatchSaveNext(d, newD) ==
    LET i == FindInv(d.inventory_snapshot, newD.cargo_id)
        q == MathMax0(JsSub(d.inventory_snapshot[i].quantity, Number(newD.qty_packed)))
        w == MathMax0(JsSub(d.inventory_snapshot[i].weight_kg, Number(newD.total_weight_kg)))
    IN  [d EXCEPT
            !.dispatches = <<newD>> \o @,
            !.inventory_snapshot =
                IF i = 0 THEN @
                ELSE [@ EXCEPT ![i] =
                        [@ EXCEPT !.quantity = q,
                                  !.weight_kg = w,
                                  !.status = IF q = 0 THEN "Dispatched" ELSE @,
                                  !.last_movement = newD.date_dispatched]]]

\* Mutant: the comparator is reversed, the sort is descending.
SortInsert_Desc(s, e) ==
    LET k == Cardinality({ i \in 1..Len(s) : s[i].date > e.date })
    IN  SubSeq(s, 1, k) \o <<e>> \o SubSeq(s, k + 1, Len(s))

\* Mutant: the sort is not stable, equal dates come out in reverse.
SortInsert_Unstable(s, e) ==
    LET k == Cardinality({ i \in 1..Len(s) : s[i].date < e.date })
    IN  SubSeq(s, 1, k) \o <<e>> \o SubSeq(s, k + 1, Len(s))

\* Array.prototype.sort((a, b) => new Date(a.date) - new Date(b.date)): a
\* stable sort, ascending by date.
SortInsert(s, e) ==
    LET k == Cardinality({ i \in 1..Len(s) : s[i].date <= e.date })
    IN  SubSeq(s, 1, k) \o <<e>> \o SubSeq(s, k + 1, Len(s))

RECURSIVE SortByDate(_)
SortByDate(s) ==
    IF Len(s) = 0 THEN <<>>
    ELSE SortInsert(SortByDate(SubSeq(s, 1, Len(s) - 1)), s[Len(s)])

\* Array.prototype.filter(x => x.cargo_id === c): the records of the cargo
\* id, in the order of the array.
FilterCargo(s, c) ==
    LET idx == { i \in 1..Len(s) : s[i].cargo_id = c }
    IN  [k \in 1..Cardinality(idx) |->
            s[CHOOSE i \in idx : Cardinality({ j \in idx : j < i }) = k - 1]]

\* MovementDrawer: the rows shown for a cargo id.
MovementRows(d, c) ==
    LET rs == FilterCargo(d.warehouse_receipts, c)
        ds == FilterCargo(d.dispatches, c)
        receipts == [i \in 1..Len(rs) |->
                        [type |-> "Receipt", date |-> rs[i].date_in,
                         qty |-> rs[i].quantity, details |-> rs[i].indent_number]]
        dispatches == [i \in 1..Len(ds) |->
                        [type |-> "Dispatch", date |-> ds[i].date_dispatched,
                         qty |-> JsNeg(ds[i].qty_packed), details |-> ds[i].container_no]]
    IN  SortByDate(receipts \o dispatches)

\* ----------------------------------------------------------------- state
\* storage : the item under STORAGE_KEY: [kind, db]
\* route   : "boot" before the first render, then the hash route
\* db      : the mounted page's state db (ReceiptPage, DispatchPage, InventoryPage)
\* selected: InventoryPage's selected row and the MovementDrawer rows shown
\* crashed : a render threw (no error boundary: the tree is unmounted)
\* saves   : the number of form submissions so far
\* nextUid : the next fresh identifier
\* lastSave, before : the last form submission, and the page's db before it
\* auth    : the item under "cc_auth": the session identity, NoAuth when absent
\* err     : LoginPage's message
\* timers  : the intervals that were set and not cleared
\* table   : the rows handed to exportCSV, each the values of its fields
\* csv     : the text of the last export, <<>> when there was none
Pages == {"/receipt", "/dispatch", "/inventory"}
Routes == {"/login"} \cup Pages

\* The other routes of the shell, and the pages that keep the document in
\* their state (useState(getDB())).
OtherPages == {"/dashboard", "/transport", "/users"}
AppRoutes == Routes \cup OtherPages
StatePages == Pages \cup {"/transport", "/users"}

\* getAuth() when there is no session, and the identity setAuth stores.
NoAuth == [email |-> "", role |-> "", name |-> ""]
Identity(email, u) == [email |-> email, role |-> u.role, name |-> u.name]

\* Mutant: the guard lets every session through.
Guard_Open(allow, a) == a # NoAuth

\* Guard: the children (table, New button, drawer) are rendered only for a
\* session whose role is allowed.
Guard(allow, a) == a # NoAuth /\ a.role \in allow

\* The intervals a page's effects set: InventoryPage's 30 s refresh and
\* TransportPage's 60 s tick.
Intervals(r) ==
    IF r = "/inventory" THEN {"refresh"} ELSE IF r = "/transport" THEN {"tick"} ELSE {}

\* Mutant: the effect has no cleanup, the interval outlives its page.
clearInterval_Leak(ts, r) == ts

\* The effects' cleanup when the page at route r is unmounted.
clearInterval(ts, r) == ts \ Intervals(r)

\* Mutant: the page's state survives from the page mounted before.
useState_Kept(prev, initial) == prev

\* useState(initial) at mount: the state starts at the initial value.
useState(prev, initial) == initial

InitialItems == {"missing", "empty", "unparseable"}

Init ==
    /\ storage \in { [kind |-> k, db |-> EmptyDB] : k \in InitialItems }
    /\ route = "boot"
    /\ db = EmptyDB
    /\ selected = Closed
    /\ crashed = FALSE
    /\ saves = 0
    /\ nextUid = 1
    /\ lastSave = [op |-> "none", form |-> NoForm]
    /\ before = EmptyDB
    /\ auth = Identity("admin@curiata.dev", SeedUsers(0)[1])
    /\ err = ""
    /\ timers = {}
    /\ table = <<>>
    /\ csv = <<>>

DocUids(doc) ==
    Len(doc.warehouse_receipts) + Len(doc.dispatches) + Len(doc.inventory_snapshot)
    + Len(doc.transport_trips) + Len(doc.users)

\* A page at route r is rendered: useState(getDB()).  Without a session the
\* application goes to the login page, which reads nothing.  The page that
\* was mounted is unmounted and its intervals cleared.  A throw in render
\* leaves the application unmounted.
Render(r, doc) ==
    LET to == IF auth = NoAuth THEN "/login" ELSE r
    IN  /\ route' = to
        /\ selected' = Closed
        /\ err' = ""
        /\ UNCHANGED <<saves, lastSave, before, auth, table, csv>>
        /\ IF to \in (Pages \cup OtherPages) /\ getDBThrows(storage, doc)
           THEN /\ crashed' = TRUE
                /\ timers' = clearInterval(timers, route)
                /\ UNCHANGED <<storage, db, nextUid>>
           ELSE /\ crashed' = FALSE
                /\ storage' = seedIfNeeded(storage, doc)
                /\ db' = IF to \in StatePages
                         THEN useState(db, getDB(storage, doc)) ELSE EmptyDB
                /\ nextUid' = IF Falsy(storage) THEN nextUid + DocUids(doc) ELSE nextUid
                /\ timers' = clearInterval(timers, route) \cup Intervals(to)

\* App: the first render at the route of the location hash, then the root
\* effect's seedIfNeeded().
App(r) ==
    /\ route = "boot"
    /\ ~crashed
    /\ \E doc \in (IF Falsy(storage) THEN SeedDocuments(nextUid) ELSE {EmptyDB}) :
          Render(r, doc)

\* A change of the hash route: the page of the new route is mounted.
Navigate(r) ==
    /\ route \notin {"boot", r}
    /\ ~crashed
    /\ \E doc \in (IF Falsy(storage) THEN SeedDocuments(nextUid) ELSE {EmptyDB}) :
          Render(r, doc)

\* ReceiptDrawer.submit -> ReceiptPage.save(form)
ReceiptPage_save(c, t, q, w) ==
    /\ route = "/receipt"
    /\ ~crashed
    /\ Guard({"Admin", "Supervisor"}, auth)
    /\ saves < MaxSaves
    /\ LET newRec == [id |-> nextUid, cargo_id |-> c, date_in |-> t,
                      indent_number |-> nextUid, quantity |-> q, weight_kg |-> w]
           next == ReceiptSaveNext(db, newRec, nextUid + 1)
       IN  /\ storage' = setDB(next)
           /\ db' = next
    /\ nextUid' = nextUid + 2
    /\ saves' = saves + 1
    /\ lastSave' = [op |-> "ReceiptPage.save",
                  form |-> [cargo_id |-> c, date |-> t, quantity |-> q, weight |-> w]]
    /\ before' = db
    /\ UNCHANGED <<route, selected, crashed, auth, err, timers, table, csv>>

\* DispatchDrawer.submit -> DispatchPage.save(form)
DispatchPage_save(c, t, q, w) ==
    /\ route = "/dispatch"
    /\ ~crashed
    /\ Guard({"Admin", "Supervisor"}, auth)
    /\ saves < MaxSaves
    /\ LET newD == [id |-> nextUid, cargo_id |-> c, container_no |-> nextUid,
                    date_dispatched |-> t, qty_packed |-> q, total_weight_kg |-> w]
           next == DispatchSaveNext(db, newD)
       IN  /\ storage' = setDB(next)
           /\ db' = next
    /\ nextUid' = nextUid + 1
    /\ saves' = saves + 1
    /\ lastSave' = [op |-> "DispatchPage.save",
                  form |-> [cargo_id |-> c, date |-> t, quantity |-> q, weight |-> w]]
    /\ before' = db
    /\ UNCHANGED <<route, selected, crashed, auth, err, timers, table, csv>>

\* InventoryPage: View on the row of cargo id c opens MovementDrawer, which
\* renders from getDB().
MovementDrawer(c) ==
    /\ route = "/inventory"
    /\ ~crashed
    /\ FindInv(db.inventory_snapshot, c) # 0
    /\ selected' = [open |-> TRUE, cargo_id |-> c, rows |-> MovementRows(storage.db, c)]
    /\ UNCHANGED <<storage, route, db, crashed, saves, nextUid, lastSave, before,
                   auth, err, timers, table, csv>>

\* MovementDrawer's close button
onClose ==
    /\ selected.open
    /\ selected' = Closed
    /\ UNCHANGED <<storage, route, db, crashed, saves, nextUid, lastSave, before,
                   auth, err, timers, table, csv>>

Next ==
    \/ \E r \in Routes : App(r)
    \/ \E r \in Routes : Navigate(r)
    \/ \E c \in CargoIds, t \in Times, q \in FormQuantities, w \in FormWeights :
          ReceiptPage_save(c, t, q, w)
    \/ \E c \in CargoIds, t \in Times, q \in FormQuantities, w \in FormWeights :
          DispatchPage_save(c, t, q, w)
    \/ \E c \in CargoIds : MovementDrawer(c)
    \/ onClose

Spec == Init /\ [][Next]_vars

\* ------------------------------------------------------- the application
\* The trips in play at once, the statuses a trip can take, the temporary
\* passwords that can be issued (`Temp${rand(10000,99999)}!`), and what is
\* typed into the login form.
TripStatuses == {"Idle", "Active", "Completed"}
TempPasswords == {"Temp1", "Temp2"}
LoginEmails == {"admin@curiata.dev", "new@curiata.dev"}
LoginPasswords == {"admin123"} \cup TempPasswords
\* The demo credentials of the README.
DemoLogins ==
    { <<"admin@curiata.dev", "admin123">>, <<"supervisor@curiata.dev", "super123">>,
      <<"viewer@curiata.dev", "view123">> }
InviteRoles == {"Viewer", "Admin"}
\* The status drawn for a new trip and by the tick.
DrawnStatuses == {"Active"}

\* db.users.find(u => u.email === email): the index of the first user with
\* the email, 0 when there is none.
FindUser(users, email) ==
    IF \E i \in 1..Len(users) : users[i].email = email
    THEN CHOOSE i \in 1..Len(users) :
            /\ users[i].email = email
            /\ \A j \in 1..(i - 1) : users[j].email # email
    ELSE 0

\* A string in a condition: undefined, null and "" are falsy.
Truthy(x) == x \notin {NoPassword, NoTemp, ""}

\* doLogin's three branches on the document d.
LoginBranch(d, email, password) ==
    LET i == FindUser(d.users, email)
        ok == Truthy(d.passwords[email]) /\ d.passwords[email] = password
    IN  IF ok /\ i # 0 THEN "password"
        ELSE IF i # 0 /\ d.users[i].tempPassword = password THEN "temp"
        ELSE "invalid"

\* Mutant: the message tells an unknown email from a wrong password.
LoginError_Distinct(d, email) ==
    IF FindUser(d.users, email) = 0 THEN "Email not found" ELSE "Invalid credentials"

\* doLogin's last branch: setErr("Invalid credentials").
LoginError(d, email) == "Invalid credentials"

\* doLogin's second branch: the temporary password is consumed and becomes
\* the password of the email.
ConsumeTemp(d, email, password) ==
    [d EXCEPT !.users[FindUser(d.users, email)].tempPassword = NoTemp,
              !.passwords[email] = password]

\* forgot: the user found gets the temporary password.
IssueTemp(d, email, temp) ==
    [d EXCEPT !.users[FindUser(d.users, email)].tempPassword = temp]

\* UsersPage.invite(user) on the page's db.
InviteNext(d, user) ==
    [d EXCEPT !.users = Append(@, user),
              !.passwords[user.email] = user.tempPassword]

\* next.transport_trips.unshift(trip)
TripNext(d, trip) == [d EXCEPT !.transport_trips = <<trip>> \o @]

\* The tick's second branch: next.transport_trips[i].trip_status = status,
\* i being rand(0, Math.min(10, length - 1)).
TripUpdate(d, i, status) ==
    IF i + 1 <= Len(d.transport_trips)
    THEN [d EXCEPT !.transport_trips[i + 1].trip_status = status]
    ELSE d

\* LoginPage.doLogin with the email and password typed.  getDB() throws out
\* of the handler when the item is not JSON, and nothing happens.
doLogin(email, password) ==
    /\ route = "/login"
    /\ ~crashed
    /\ storage.kind = "doc"
    /\ LoginBranch(storage.db, email, password) = "temp" => saves < MaxWrites
    /\ LET d == storage.db
           branch == LoginBranch(d, email, password)
       IN  IF branch = "invalid"
           THEN /\ err' = LoginError(d, email)
                /\ UNCHANGED <<storage, route, auth>>
           ELSE /\ auth' = Identity(email, d.users[FindUser(d.users, email)])
                /\ storage' = IF branch = "temp"
                              THEN setDB(ConsumeTemp(d, email, password)) ELSE storage
                /\ route' = "/dashboard"
                /\ err' = ""
    /\ saves' = IF LoginBranch(storage.db, email, password) = "temp" THEN saves + 1 ELSE saves
    /\ UNCHANGED <<db, selected, crashed, nextUid, lastSave, before, timers, table, csv>>

\* LoginPage.forgot with the email typed; temp is the password drawn.
forgot(email, temp) ==
    /\ route = "/login"
    /\ ~crashed
    /\ storage.kind = "doc"
    /\ FindUser(storage.db.users, email) # 0 => saves < MaxWrites
    /\ IF FindUser(storage.db.users, email) = 0
       THEN /\ err' = "Email not found"
            /\ UNCHANGED <<storage, saves>>
       ELSE /\ storage' = setDB(IssueTemp(storage.db, email, temp))
            /\ saves' = saves + 1
            /\ UNCHANGED err
    /\ UNCHANGED <<route, db, selected, crashed, nextUid, lastSave, before, auth, timers,
                   table, csv>>

\* InviteUserDrawer.submit -> UsersPage.invite(form)
invite(email, role, temp) ==
    /\ route = "/users"
    /\ ~crashed
    /\ Guard({"Admin"}, auth)
    /\ saves < MaxWrites
    /\ LET user == [id |-> nextUid, email |-> email, role |-> role,
                    name |-> "Invited", tempPassword |-> temp]
           next == InviteNext(db, user)
       IN  /\ storage' = setDB(next)
           /\ db' = next
    /\ nextUid' = nextUid + 1
    /\ saves' = saves + 1
    /\ UNCHANGED <<route, selected, crashed, lastSave, before, auth, err, timers,
                   table, csv>>

\* TransportPage's interval: a new trip is put in front (add), or the status
\* of the trip at index i is drawn again.  It fires as long as the interval
\* is not cleared; setDbState reaches the page only while it is mounted.
TransportPage_tick(add, i, status) ==
    /\ "tick" \in timers
    /\ ~crashed
    /\ storage.kind = "doc"
    /\ add => saves < MaxWrites
    /\ LET next == IF add
                   THEN TripNext(storage.db, [id |-> nextUid, trip_status |-> status])
                   ELSE TripUpdate(storage.db, i, status)
       IN  /\ storage' = setDB(next)
           /\ db' = IF route = "/transport" THEN next ELSE db
    /\ nextUid' = IF add THEN nextUid + 1 ELSE nextUid
    /\ saves' = IF add THEN saves + 1 ELSE saves
    /\ UNCHANGED <<route, selected, crashed, lastSave, before, auth, err, timers,
                   table, csv>>

\* TransportPage.generateDummyTrip
generateDummyTrip(status) ==
    /\ route = "/transport"
    /\ ~crashed
    /\ saves < MaxWrites
    /\ LET next == TripNext(storage.db, [id |-> nextUid, trip_status |-> status])
       IN  /\ storage' = setDB(next)
           /\ db' = next
    /\ nextUid' = nextUid + 1
    /\ saves' = saves + 1
    /\ UNCHANGED <<route, selected, crashed, lastSave, before, auth, err, timers,
                   table, csv>>

\* InventoryPage's interval: setDbState(getDB()).
InventoryPage_refresh ==
    /\ "refresh" \in timers
    /\ ~crashed
    /\ storage.kind = "doc"
    /\ db' = IF route = "/inventory" THEN storage.db ELSE db
    /\ UNCHANGED <<storage, route, selected, crashed, saves, nextUid, lastSave, before,
                   auth, err, timers, table, csv>>

\* signOut(): the session is removed and the hash set to #/login.
signOut ==
    /\ route \notin {"boot", "/login"}
    /\ ~crashed
    /\ auth' = NoAuth
    /\ route' = "/login"
    /\ db' = EmptyDB
    /\ selected' = Closed
    /\ err' = ""
    /\ timers' = clearInterval(timers, route)
    /\ UNCHANGED <<storage, crashed, saves, nextUid, lastSave, before, table, csv>>

\* The documents an earlier visit left in the store: seeded ones, here those
\* of one receipt and one dispatch of a single unit.
StoredDocuments ==
    { d \in SeedDocuments(1) :
        d.warehouse_receipts[1].quantity = 1 /\ d.dispatches[1].qty_packed = 1 }

\* The application is opened without a session on a store that holds a
\* document.
AppInit ==
    /\ storage \in { setDB(d) : d \in StoredDocuments }
    /\ route = "boot"
    /\ db = EmptyDB
    /\ selected = Closed
    /\ crashed = FALSE
    /\ saves = 0
    /\ nextUid = 1 + DocUids(storage.db)
    /\ lastSave = [op |-> "none", form |-> NoForm]
    /\ before = EmptyDB
    /\ auth = NoAuth
    /\ err = ""
    /\ timers = {}
    /\ table = <<>>
    /\ csv = <<>>

AppNext ==
    \/ \E r \in AppRoutes : App(r)
    \/ \E r \in AppRoutes : Navigate(r)
    \/ \E e \in LoginEmails, p \in LoginPasswords : doLogin(e, p)
    \/ \E c \in DemoLogins : doLogin(c[1], c[2])
    \/ \E e \in LoginEmails, t \in TempPasswords : forgot(e, t)
    \/ \E e \in LoginEmails, r \in InviteRoles, t \in TempPasswords : invite(e, r, t)
    \/ \E add \in BOOLEAN, i \in 0..MaxWrites, x \in DrawnStatuses :
          TransportPage_tick(add, i, x)
    \/ \E x \in DrawnStatuses : generateDummyTrip(x)
    \/ InventoryPage_refresh
    \/ signOut
    \/ \E c \in FreshCargoIds, t \in SeedTimes, q \in 1..1, w \in 0..0 :
          ReceiptPage_save(c, t, q, w)
    \/ \E c \in SeedCargoIds, t \in SeedTimes, q \in 1..1, w \in 0..0 :
          DispatchPage_save(c, t, q, w)

AppSpec == AppInit /\ [][AppNext]_vars

\* ------------------------------------------------------------ CSV export
\* A text is the sequence of its characters.  The characters in play: a
\* letter and the three that csvEscape looks for.
Comma == ","
Quote == "\""
Newline == "\n"
CsvChars == {"a", Comma, Quote, Newline}

\* The texts of at most n characters.
Texts(n) == UNION { [1..k -> CsvChars] : k \in 0..n }

\* A field that is null or undefined.
NullValue == <<"(null)">>

\* Object.keys(rows[0]): the field names of the rows.
Headers == << <<"h">>, <<"k">> >>

\* The rows: a short field and a longer one, each a text or null.
Records ==
    { <<x, y>> : x \in Texts(MaxLen - 1) \cup {NullValue}, y \in Texts(MaxLen) \cup {NullValue} }
Tables == UNION { [1..n -> Records] : n \in 0..MaxRows }

\* Mutant: the quotes of a quoted field are not doubled.
DoubleQuotes_None(s) == s

\* s.replace(/"/g, '""')
RECURSIVE DoubleQuotes(_)
DoubleQuotes(s) ==
    IF Len(s) = 0 THEN <<>>
    ELSE (IF Head(s) = Quote THEN <<Quote, Quote>> ELSE <<Head(s)>>) \o DoubleQuotes(Tail(s))

\* s.includes(ch)
Includes(s, ch) == \E i \in 1..Len(s) : s[i] = ch

\* csvEscape(v); String(v) of a text is the text.
csvEscape(v) ==
    IF v = NullValue THEN <<>>
    ELSE IF Includes(v, Comma) \/ Includes(v, Quote) \/ Includes(v, Newline)
         THEN <<Quote>> \o DoubleQuotes(v) \o <<Quote>>
         ELSE v

\* Array.prototype.join(sep)
RECURSIVE Join(_, _)
Join(ts, sep) ==
    IF Len(ts) = 0 THEN <<>>
    ELSE IF Len(ts) = 1 THEN ts[1]
    ELSE ts[1] \o sep \o Join(Tail(ts), sep)

\* exportCSV(filename, rows): the text of the file, for rows that are not
\* empty.
exportCSV(rows) ==
    Join(<<Join(Headers, <<Comma>>)>> \o
         [i \in 1..Len(rows) |->
            Join([j \in 1..Len(Headers) |-> csvEscape(rows[i][j])], <<Comma>>)],
         <<Newline>>)

\* DataTable's Export CSV button; exportCSV returns at once on no rows.
DataTable_exportCSV ==
    /\ Len(table) > 0
    /\ csv' = exportCSV(table)
    /\ UNCHANGED <<storage, route, db, selected, crashed, saves, nextUid, lastSave, before,
                   auth, err, timers, table>>

\* A table is on screen and nothing was exported.
CsvInit ==
    /\ storage = [kind |-> "missing", db |-> EmptyDB]
    /\ route = "boot"
    /\ db = EmptyDB
    /\ selected = Closed
    /\ crashed = FALSE
    /\ saves = 0
    /\ nextUid = 1
    /\ lastSave = [op |-> "none", form |-> NoForm]
    /\ before = EmptyDB
    /\ auth = NoAuth
    /\ err = ""
    /\ timers = {}
    /\ table \in Tables
    /\ csv = <<>>

CsvNext == DataTable_exportCSV

CsvSpec == CsvInit /\ [][CsvNext]_vars

\* ------------------------------------------------- reading the documents
IsNumber(v) == v \notin {Str, NaN, Null}

HasSnap(d, c) == FindInv(d.inventory_snapshot, c) # 0
SnapOf(d, c) == d.inventory_snapshot[FindInv(d.inventory_snapshot, c)]
SnapIds(d) == { d.inventory_snapshot[i].cargo_id : i \in 1..Len(d.inventory_snapshot) }

\* The records that were created no later than uid k.
UpTo(s, k) == SelectSeq(s, LAMBDA r : r.id <= k)

\* Every receipt and dispatch of cargo id c carries numbers >= 0.
ValidFor(d, c) ==
    /\ \A i \in 1..Len(d.warehouse_receipts) :
          d.warehouse_receipts[i].cargo_id = c =>
             d.warehouse_receipts[i].quantity >= 0 /\ d.warehouse_receipts[i].weight_kg >= 0
    /\ \A i \in 1..Len(d.dispatches) :
          d.dispatches[i].cargo_id = c =>
             d.dispatches[i].qty_packed >= 0 /\ d.dispatches[i].total_weight_kg >= 0

NetQty(d, c) == ReceiptQty(d.warehouse_receipts, c) - DispatchQty(d.dispatches, c)
NetWeight(d, c) == ReceiptWeight(d.warehouse_receipts, c) - DispatchWeight(d.dispatches, c)

\* The running totals (received less dispatched) after each save, in the order
\* of the saves, with 0 for the start.
RunningQty(d, c) ==
    { ReceiptQty(UpTo(d.warehouse_receipts, k), c) - DispatchQty(UpTo(d.dispatches, k), c) :
        k \in 0..nextUid }
RunningWeight(d, c) ==
    { ReceiptWeight(UpTo(d.warehouse_receipts, k), c)
        - DispatchWeight(UpTo(d.dispatches, k), c) : k \in 0..nextUid }
Lowest(S) == CHOOSE m \in S : \A x \in S : m <= x

\* ----------------------------------------------------------------- C1
\* C1 as stated: for a cargo id that starts without a snapshot and whose saved
\* receipts and dispatches all carry numbers >= 0, the stored snapshot has
\* quantity max(0, received - dispatched) and weight max(0, received - dispatched).
C1_NetOfReceiptsAndDispatches ==
    \A c \in FreshCargoIds :
        (storage.kind = "doc" /\ HasSnap(storage.db, c) /\ ValidFor(storage.db, c)) =>
            /\ SnapOf(storage.db, c).quantity = Max0(NetQty(storage.db, c))
            /\ SnapOf(storage.db, c).weight_kg = Max0(NetWeight(storage.db, c))

\* C1 amended: the stored snapshot's quantity is received - dispatched less
\* the lowest value the running total ever took when that is negative (each
\* dispatch saved before the first receipt, or for more than was on hand, is
\* absorbed for good); so it is received - dispatched exactly when the running
\* total never went below 0.  The weight follows the same rule on its own
\* running total.
C1_NetLessLowestRunningTotal ==
    \A c \in FreshCargoIds :
        (storage.kind = "doc" /\ HasSnap(storage.db, c) /\ ValidFor(storage.db, c)) =>
            /\ SnapOf(storage.db, c).quantity =
                  NetQty(storage.db, c) - Lowest(RunningQty(storage.db, c) \cup {0})
            /\ SnapOf(storage.db, c).weight_kg =
                  NetWeight(storage.db, c) - Lowest(RunningWeight(storage.db, c) \cup {0})

\* A dispatch of a fresh cargo id was absorbed and a receipt followed it.
C1_Witness ==
    \E c \in FreshCargoIds :
        /\ storage.kind = "doc" /\ HasSnap(storage.db, c) /\ ValidFor(storage.db, c)
        /\ Lowest(RunningQty(storage.db, c)) < 0
        /\ NetQty(storage.db, c) <= 0
        /\ SnapOf(storage.db, c).quantity > 0

\* ----------------------------------------------------------------- C2
\* C2: every stored inventory snapshot has a quantity >= 0 and a weight >= 0
\* (a stored null compares as 0, as it does in the source's arithmetic).
C2_SnapshotsNonNegative ==
    \A i \in 1..Len(storage.db.inventory_snapshot) :
        /\ ToNumber(storage.db.inventory_snapshot[i].quantity) >= 0
        /\ ToNumber(storage.db.inventory_snapshot[i].weight_kg) >= 0

\* ----------------------------------------------------------------- C3
\* The last save was a dispatch of more than the quantity its cargo id's
\* snapshot held.
OverDispatch ==
    /\ lastSave.op = "DispatchPage.save"
    /\ HasSnap(before, lastSave.form.cargo_id)
    /\ Number(lastSave.form.quantity) # NaN
    /\ ToNumber(SnapOf(before, lastSave.form.cargo_id).quantity) # NaN
    /\ Number(lastSave.form.quantity) > ToNumber(SnapOf(before, lastSave.form.cargo_id).quantity)

\* C3: a dispatch of more than the snapshot's quantity is saved all the same
\* and leaves the snapshot with quantity 0, status "Dispatched", weight
\* max(0, weight - dispatch weight) and the dispatch's date as last movement.
C3_OverDispatchFloorsAtZero ==
    OverDispatch =>
        LET c == lastSave.form.cargo_id
            was == SnapOf(before, c)
        IN  /\ storage.kind = "doc" /\ ~crashed
            /\ Len(storage.db.dispatches) = Len(before.dispatches) + 1
            /\ Head(storage.db.dispatches).cargo_id = c
            /\ Head(storage.db.dispatches).qty_packed = lastSave.form.quantity
            /\ HasSnap(storage.db, c)
            /\ SnapOf(storage.db, c).quantity = 0
            /\ SnapOf(storage.db, c).status = "Dispatched"
            /\ SnapOf(storage.db, c).weight_kg =
                  Max0(ToNumber(was.weight_kg) - lastSave.form.weight)
            /\ SnapOf(storage.db, c).last_movement = lastSave.form.date

\* An over-dispatch of a snapshot that held a positive quantity and more
\* weight than the dispatch took.
C3_Witness ==
    /\ OverDispatch
    /\ SnapOf(before, lastSave.form.cargo_id).quantity > 0
    /\ SnapOf(before, lastSave.form.cargo_id).status # "Dispatched"
    /\ SnapOf(storage.db, lastSave.form.cargo_id).weight_kg > 0

\* ----------------------------------------------------------------- C4
\* The last save was a dispatch of a cargo id that had no snapshot.
DispatchOfUnknown ==
    /\ lastSave.op = "DispatchPage.save"
    /\ ~HasSnap(before, lastSave.form.cargo_id)

\* C4: a dispatch of a cargo id without a snapshot is added to the dispatches
\* and the inventory collection stays as it was.
C4_DispatchOfUnknownLeavesInventory ==
    DispatchOfUnknown =>
        /\ storage.kind = "doc"
        /\ Len(storage.db.dispatches) = Len(before.dispatches) + 1
        /\ Tail(storage.db.dispatches) = before.dispatches
        /\ Head(storage.db.dispatches).cargo_id = lastSave.form.cargo_id
        /\ Head(storage.db.dispatches).qty_packed = lastSave.form.quantity
        /\ storage.db.inventory_snapshot = JsonInv(before.inventory_snapshot)
        /\ ~HasSnap(storage.db, lastSave.form.cargo_id)
        /\ storage.db.warehouse_receipts = before.warehouse_receipts

\* Such a dispatch, with a quantity, while another cargo id has a snapshot.
C4_Witness ==
    /\ DispatchOfUnknown
    /\ lastSave.form.quantity > 0
    /\ Len(storage.db.inventory_snapshot) > 0

\* ----------------------------------------------------------------- C5
\* What the snapshot of cargo id c held before the last save: 0 when it had none.
WasQty(c) == IF HasSnap(before, c) THEN ToNumber(SnapOf(before, c).quantity) ELSE 0
WasWeight(c) == IF HasSnap(before, c) THEN ToNumber(SnapOf(before, c).weight_kg) ELSE 0

\* C5: a receipt save goes through; the receipt is added, the cargo id has a
\* snapshot (a new one if it had none), whose quantity and weight grew by
\* exactly the receipt's, whose status is "On Site" and whose last movement
\* is the receipt's date; the other snapshots stay as they were.
C5_ReceiptSaveUpserts ==
    lastSave.op = "ReceiptPage.save" =>
        LET c == lastSave.form.cargo_id
            q == Number(lastSave.form.quantity)
            now == SnapOf(storage.db, c)
        IN  /\ storage.kind = "doc" /\ ~crashed
            /\ Len(storage.db.warehouse_receipts) = Len(before.warehouse_receipts) + 1
            /\ Tail(storage.db.warehouse_receipts) = before.warehouse_receipts
            /\ Head(storage.db.warehouse_receipts).cargo_id = c
            /\ Head(storage.db.warehouse_receipts).date_in = lastSave.form.date
            /\ Head(storage.db.warehouse_receipts).quantity = lastSave.form.quantity
            /\ Head(storage.db.warehouse_receipts).weight_kg = lastSave.form.weight
            /\ HasSnap(storage.db, c)
            /\ SnapIds(storage.db) = SnapIds(before) \cup {c}
            /\ Len(storage.db.inventory_snapshot) =
                  Len(before.inventory_snapshot) + (IF HasSnap(before, c) THEN 0 ELSE 1)
            /\ (q # NaN /\ WasQty(c) # NaN) => now.quantity = WasQty(c) + q
            /\ now.weight_kg = WasWeight(c) + lastSave.form.weight
            /\ now.status = "On Site"
            /\ now.last_movement = lastSave.form.date
            /\ \A o \in SnapIds(before) \ {c} :
                  SnapOf(storage.db, o) = JsonSnap(SnapOf(before, o))
            /\ storage.db.dispatches = before.dispatches

\* A receipt with a quantity for a cargo id whose snapshot was "Dispatched".
C5_Witness ==
    /\ lastSave.op = "ReceiptPage.save"
    /\ HasSnap(before, lastSave.form.cargo_id)
    /\ SnapOf(before, lastSave.form.cargo_id).status = "Dispatched"
    /\ lastSave.form.quantity > 0
    /\ SnapOf(storage.db, lastSave.form.cargo_id).quantity > 0

\* ----------------------------------------------------------------- C6
\* Every stored receipt and dispatch carries numbers >= 0.
ValidLedger(d) == \A c \in CargoIds : ValidFor(d, c)

\* C6: while every saved quantity is >= 0, a stored snapshot with quantity 0
\* has status "Dispatched".
C6_ZeroQuantityIsDispatched ==
    ValidLedger(storage.db) =>
        \A i \in 1..Len(storage.db.inventory_snapshot) :
            storage.db.inventory_snapshot[i].quantity = 0 =>
                storage.db.inventory_snapshot[i].status = "Dispatched"

\* ----------------------------------------------------------------- C7
OneSnapshotPerCargo(d) ==
    \A i, j \in 1..Len(d.inventory_snapshot) :
        i # j => d.inventory_snapshot[i].cargo_id # d.inventory_snapshot[j].cargo_id

\* C7: the stored inventory holds at most one snapshot per cargo id; no step
\* removes a cargo id's snapshot; and a step that adds one is the seeding of
\* an empty store or a receipt save for a cargo id that had none.
C7_OneSnapshotPerCargoNeverRemoved ==
    [][ /\ OneSnapshotPerCargo(storage'.db)
        /\ SnapIds(storage.db) \subseteq SnapIds(storage'.db)
        /\ SnapIds(storage'.db) # SnapIds(storage.db) =>
              \/ Falsy(storage) /\ storage'.kind = "doc"
              \/ /\ route = "/receipt"
                 /\ saves' = saves + 1
                 /\ lastSave'.op = "ReceiptPage.save"
                 /\ lastSave'.form.cargo_id \notin SnapIds(storage.db)
                 /\ SnapIds(storage'.db) = SnapIds(storage.db) \cup {lastSave'.form.cargo_id}
      ]_vars

\* A first receipt created a snapshot beside a seeded one, and a second
\* receipt of the same cargo id found it.
C7_Witness ==
    /\ lastSave.op = "ReceiptPage.save"
    /\ HasSnap(before, lastSave.form.cargo_id)
    /\ lastSave.form.cargo_id \in FreshCargoIds
    /\ Len(storage.db.inventory_snapshot) = 2
    /\ OneSnapshotPerCargo(storage.db)

\* ----------------------------------------------------------------- C8
\* The event MovementDrawer shows for a receipt and for a dispatch.
ReceiptEvent(r) ==
    [type |-> "Receipt", date |-> r.date_in, qty |-> r.quantity, details |-> r.indent_number]
DispatchEvent(x) ==
    [type |-> "Dispatch", date |-> x.date_dispatched,
     qty |-> IF x.qty_packed = Str THEN NaN ELSE 0 - x.qty_packed,
     details |-> x.container_no]

\* The events of cargo id c's stored receipts and dispatches.
EventsOf(d, c) ==
    { ReceiptEvent(d.warehouse_receipts[i]) :
        i \in { k \in 1..Len(d.warehouse_receipts) : d.warehouse_receipts[k].cargo_id = c } }
    \cup
    { DispatchEvent(d.dispatches[i]) :
        i \in { k \in 1..Len(d.dispatches) : d.dispatches[k].cargo_id = c } }

RecordsOf(d, c) ==
    Cardinality({ k \in 1..Len(d.warehouse_receipts) : d.warehouse_receipts[k].cargo_id = c })
    + Cardinality({ k \in 1..Len(d.dispatches) : d.dispatches[k].cargo_id = c })

\* C8: the rows MovementDrawer shows for a cargo id are one event for each
\* stored receipt (+quantity) and each stored dispatch (-packed quantity) of
\* that cargo id and no others, in non-decreasing order of date; and opening
\* the drawer leaves the stored document as it was.
C8_MovementHistory ==
    [][ selected'.open =>
          LET rows == selected'.rows
              c == selected'.cargo_id
          IN  /\ storage' = storage
              /\ Len(rows) = RecordsOf(storage.db, c)
              /\ \A e \in EventsOf(storage.db, c) :
                    Cardinality({ k \in 1..Len(rows) : rows[k] = e }) = 1
              /\ \A k \in 1..Len(rows) : rows[k] \in EventsOf(storage.db, c)
              /\ \A k \in 1..(Len(rows) - 1) : rows[k].date <= rows[k + 1].date
      ]_vars

\* A history of receipts and dispatches saved at different dates.
C8_Witness ==
    /\ selected.open
    /\ Len(selected.rows) >= 3
    /\ \E i, j \in 1..Len(selected.rows) :
          /\ selected.rows[i].type = "Receipt" /\ selected.rows[j].type = "Dispatch"
          /\ selected.rows[j].date < selected.rows[i].date
    /\ \E k \in 1..Len(storage.db.dispatches) :
          storage.db.dispatches[k].cargo_id # selected.cargo_id

PlaceOf(d, e) ==
    IF e.type = "Receipt"
    THEN CHOOSE k \in 1..Len(d.warehouse_receipts) :
            d.warehouse_receipts[k].indent_number = e.details
    ELSE CHOOSE k \in 1..Len(d.dispatches) : d.dispatches[k].container_no = e.details

\* The record an event shows was saved through a form (the seeded records
\* are the last of their collection).
FormSaved(d, e) ==
    IF e.type = "Receipt"
    THEN PlaceOf(d, e) <= Len(d.warehouse_receipts) - SeedReceipts
    ELSE PlaceOf(d, e) <= Len(d.dispatches) - SeedDispatches

C10_LoadFailsSoft ==
    /\ ~crashed
    /\ route \in Pages => storage.kind = "doc"

\* ---------------------------------------------------------------- C11
\* C11: whatever was saved into the stored document, a call of seedIfNeeded
\* (directly or through getDB) leaves the stored item as it is, and getDB
\* returns the stored document.
C11_SeedIsIdempotent ==
    storage.kind = "doc" =>
        \A doc \in SeedDocuments(nextUid) :
            /\ seedIfNeeded(storage, doc) = storage
            /\ ~getDBThrows(storage, doc)
            /\ getDB(storage, doc) = storage.db

\* A page has just loaded a document into which a receipt, an invited user
\* with a temporary password and a trip were saved.
C11_Witness ==
    /\ storage.kind = "doc"
    /\ route \in StatePages
    /\ db = storage.db
    /\ Len(storage.db.warehouse_receipts) > SeedReceipts
    /\ Len(storage.db.users) > Len(SeedUsers(0))
    /\ Len(storage.db.transport_trips) > SeedTrips
    /\ storage.db.passwords # SeedPasswords

\* ---------------------------------------------------------------- C12
\* The cargo ids of the receipts of a document.
ReceiptIds(d) == { d.warehouse_receipts[i].cargo_id : i \in 1..Len(d.warehouse_receipts) }

\* C12: right after the seeding of an empty store, each cargo id of the
\* seeded receipts has exactly one snapshot, whose quantity is
\* max(0, received - dispatched), whose weight is max(0, received weight -
\* dispatched weight) and whose status is "Dispatched" when the net quantity
\* is <= 0 and one of InvStatuses otherwise; and every seeded dispatch is of
\* the cargo id of a seeded receipt.
C12_SeedFoldsLedger ==
    (storage.kind = "doc" /\ saves = 0) =>
        LET d == storage.db
        IN  /\ \A c \in ReceiptIds(d) :
                  /\ Cardinality({ i \in 1..Len(d.inventory_snapshot) :
                                      d.inventory_snapshot[i].cargo_id = c }) = 1
                  /\ SnapOf(d, c).quantity = Max0(NetQty(d, c))
                  /\ SnapOf(d, c).weight_kg = Max0(NetWeight(d, c))
                  /\ IF NetQty(d, c) <= 0
                     THEN SnapOf(d, c).status = "Dispatched"
                     ELSE SnapOf(d, c).status \in InvStatuses
            /\ \A i \in 1..Len(d.dispatches) : d.dispatches[i].cargo_id \in ReceiptIds(d)

\* The same without the weight: what the seed does keep.
C12_SeedFoldsQuantity ==
    (storage.kind = "doc" /\ saves = 0) =>
        LET d == storage.db
        IN  /\ \A c \in ReceiptIds(d) :
                  /\ Cardinality({ i \in 1..Len(d.inventory_snapshot) :
                                      d.inventory_snapshot[i].cargo_id = c }) = 1
                  /\ SnapOf(d, c).quantity = Max0(NetQty(d, c))
                  /\ IF NetQty(d, c) <= 0
                     THEN SnapOf(d, c).status = "Dispatched"
                     ELSE SnapOf(d, c).status \in InvStatuses
            /\ \A i \in 1..Len(d.dispatches) : d.dispatches[i].cargo_id \in ReceiptIds(d)

\* ------------------------------------------------------ C13 .. C16
\* The users of the document with the email.
UsersOf(d, email) == { i \in 1..Len(d.users) : d.users[i].email = email }

\* The user a sign-in with the email is for.
UserOf(d, email) == d.users[FindUser(d.users, email)]

\* The credentials are good: a user with the email exists and the password
\* is the stored password of the email or that user's temporary password.
Accepts(d, email, password) ==
    \E i \in UsersOf(d, email) :
        \/ d.passwords[email] = password
        \/ d.users[i].tempPassword = password

\* ---------------------------------------------------------------- C13
\* C13: after a sign-in that succeeds with the user's outstanding temporary
\* password, the user's temporary password is cleared and the password is
\* the stored password of the email.
C13_TempPasswordIsOneTime ==
    [][ \A e \in LoginEmails, p \in LoginPasswords :
          ( /\ doLogin(e, p)
            /\ FindUser(storage.db.users, e) # 0
            /\ UserOf(storage.db, e).tempPassword = p
            /\ route' = "/dashboard" ) =>
               /\ UserOf(storage'.db, e).tempPassword = NoTemp
               /\ storage'.db.passwords[e] = p
      ]_vars

\* ---------------------------------------------------------------- C14
\* C14: a sign-in succeeds, and stores the identity of a user with the email,
\* exactly when the credentials are good.
C14_SignInIffCredentials ==
    [][ \A e \in LoginEmails, p \in LoginPasswords :
          doLogin(e, p) =>
             ( ( /\ route' = "/dashboard"
                 /\ \E i \in UsersOf(storage.db, e) : auth' = Identity(e, storage.db.users[i]) )
               <=> Accepts(storage.db, e, p) )
      ]_vars

\* No two users of the document have the same email.
UniqueEmails(d) == \A e \in Emails : Cardinality(UsersOf(d, e)) <= 1

\* The same while no two users have the same email.
C14_SignInIffCredentialsUnique ==
    [][ \A e \in LoginEmails, p \in LoginPasswords :
          (UniqueEmails(storage.db) /\ doLogin(e, p)) =>
             ( ( /\ route' = "/dashboard"
                 /\ \E i \in UsersOf(storage.db, e) : auth' = Identity(e, storage.db.users[i]) )
               <=> Accepts(storage.db, e, p) )
      ]_vars

\* ---------------------------------------------------------------- C15
\* C15: a sign-in with credentials that are not good, be the email unknown
\* or the password wrong, shows "Invalid credentials", leaves the session as
\* it was and leaves the stored document as it was.
C15_FailedSignInIsUniform ==
    [][ \A e \in LoginEmails, p \in LoginPasswords :
          (doLogin(e, p) /\ ~Accepts(storage.db, e, p)) =>
             /\ err' = "Invalid credentials"
             /\ auth' = auth
             /\ storage' = storage
             /\ route' = "/login"
      ]_vars

\* A sign-in has failed while a user had an outstanding temporary password
\* and while an email of the form was unknown.
C15_Witness ==
    /\ err = "Invalid credentials"
    /\ route = "/login"
    /\ auth = NoAuth
    /\ \E i \in 1..Len(storage.db.users) : storage.db.users[i].tempPassword # NoTemp
    /\ \E e \in LoginEmails : UsersOf(storage.db, e) = {}

\* ---------------------------------------------------------------- C16
\* C16: forgot for the email of a user sets that user's temporary password to
\* the one issued, after which an earlier, different temporary password of
\* the user no longer signs in; the passwords and the other users stay as
\* they were; for an unknown email the stored document stays as it was.
C16_ForgotReplacesTemp ==
    [][ \A e \in LoginEmails, t \in TempPasswords :
          forgot(e, t) =>
             IF FindUser(storage.db.users, e) = 0
             THEN storage' = storage
             ELSE LET k == FindUser(storage.db.users, e)
                      old == storage.db.users[k].tempPassword
                  IN  /\ storage'.db.users[k].tempPassword = t
                      /\ storage'.db.passwords = storage.db.passwords
                      /\ Len(storage'.db.users) = Len(storage.db.users)
                      /\ \A i \in 1..Len(storage.db.users) :
                            i # k => storage'.db.users[i] = storage.db.users[i]
                      /\ (old # NoTemp /\ old # t) =>
                            LoginBranch(storage'.db, e, old) = "invalid"
      ]_vars

\* ---------------------------------------------------------------- C17
\* C17: no two stored users have the same email, and an email with a
\* password record is the email of exactly one user.
C17_EmailsAreUnique ==
    storage.kind = "doc" =>
        /\ UniqueEmails(storage.db)
        /\ \A e \in Emails :
              storage.db.passwords[e] # NoPassword => Cardinality(UsersOf(storage.db, e)) = 1

\* ---------------------------------------------------------------- C18
\* C18: every stored receipt and dispatch carries a quantity and a weight
\* that are numbers >= 0: the forms let nothing else through to the save.
C18_FormsValidate ==
    storage.kind = "doc" =>
        /\ \A i \in 1..Len(storage.db.warehouse_receipts) :
              /\ IsNumber(storage.db.warehouse_receipts[i].quantity)
              /\ storage.db.warehouse_receipts[i].quantity >= 0
              /\ IsNumber(storage.db.warehouse_receipts[i].weight_kg)
              /\ storage.db.warehouse_receipts[i].weight_kg >= 0
        /\ \A i \in 1..Len(storage.db.dispatches) :
              /\ IsNumber(storage.db.dispatches[i].qty_packed)
              /\ storage.db.dispatches[i].qty_packed >= 0
              /\ IsNumber(storage.db.dispatches[i].total_weight_kg)
              /\ storage.db.dispatches[i].total_weight_kg >= 0

\* ---------------------------------------------------------------- C19
\* The identifiers of the records of a collection.
IdsOf(s) == { s[i].id : i \in 1..Len(s) }

\* C19: no step drops a stored receipt, dispatch, snapshot, trip or user, and
\* a page that keeps the document in its state holds the stored document,
\* so that its save is applied to the latest one.
C19_NoLostUpdate ==
    [][ (storage.kind = "doc" /\ storage'.kind = "doc") =>
          /\ IdsOf(storage.db.warehouse_receipts) \subseteq IdsOf(storage'.db.warehouse_receipts)
          /\ IdsOf(storage.db.dispatches) \subseteq IdsOf(storage'.db.dispatches)
          /\ IdsOf(storage.db.inventory_snapshot) \subseteq IdsOf(storage'.db.inventory_snapshot)
          /\ IdsOf(storage.db.transport_trips) \subseteq IdsOf(storage'.db.transport_trips)
          /\ IdsOf(storage.db.users) \subseteq IdsOf(storage'.db.users)
          /\ (route' \in StatePages /\ ~crashed') => JsonDB(db') = storage'.db
      ]_vars

\* A receipt was saved, then a trip was added and a temporary password
\* issued to a seeded user, and all three are in the stored document.
C19_Witness ==
    /\ storage.kind = "doc"
    /\ Len(storage.db.warehouse_receipts) > SeedReceipts
    /\ Len(storage.db.transport_trips) > SeedTrips
    /\ \E i \in 1..Len(SeedUsers(0)) : storage.db.users[i].tempPassword # NoTemp
    /\ route = "/users"
    /\ db = storage.db

\* ---------------------------------------------------------------- C20
\* C20: an interval is live only while its page is mounted, the refresh on
\* the Inventory view and the tick on the Transport view; and no step taken
\* while the Transport view is not mounted adds or changes a trip.
C20_TimersCancelled ==
    [][ /\ "refresh" \in timers' => route' = "/inventory"
        /\ "tick" \in timers' => route' = "/transport"
        /\ (storage.kind = "doc" /\ route # "/transport") =>
              storage'.db.transport_trips = storage.db.transport_trips
      ]_vars

\* The tick changed the seeded trip, the Transport view was left for the
\* Inventory view, and only the refresh is live.
C20_Witness ==
    /\ storage.kind = "doc"
    /\ \E i \in 1..Len(storage.db.transport_trips) :
          /\ storage.db.transport_trips[i].id <= DocUids(storage.db)
          /\ storage.db.transport_trips[i].trip_status \notin SeedTripStatuses
          /\ i = Len(storage.db.transport_trips)
    /\ Len(storage.db.transport_trips) > SeedTrips
    /\ route = "/inventory"
    /\ timers = {"refresh"}

\* ---------------------------------------------------------------- C21
\* A parser of standard CSV (RFC 4180): fields are separated by commas and
\* records by line breaks; a field that starts with a quote runs to its
\* closing quote, a doubled quote inside it standing for one quote.
RECURSIVE ParseFrom(_, _, _, _, _, _)
ParseFrom(t, i, quoted, field, rec, recs) ==
    IF i > Len(t) THEN Append(recs, Append(rec, field))
    ELSE IF quoted
         THEN IF t[i] = Quote
              THEN IF i < Len(t) /\ t[i + 1] = Quote
                   THEN ParseFrom(t, i + 2, TRUE, Append(field, Quote), rec, recs)
                   ELSE ParseFrom(t, i + 1, FALSE, field, rec, recs)
              ELSE ParseFrom(t, i + 1, TRUE, Append(field, t[i]), rec, recs)
         ELSE IF t[i] = Quote /\ field = <<>>
              THEN ParseFrom(t, i + 1, TRUE, field, rec, recs)
              ELSE IF t[i] = Comma
                   THEN ParseFrom(t, i + 1, FALSE, <<>>, Append(rec, field), recs)
                   ELSE IF t[i] = Newline
                        THEN ParseFrom(t, i + 1, FALSE, <<>>, <<>>,
                                       Append(recs, Append(rec, field)))
                        ELSE ParseFrom(t, i + 1, FALSE, Append(field, t[i]), rec, recs)

ParseCSV(t) == ParseFrom(t, 1, FALSE, <<>>, <<>>, <<>>)

\* The lines of a text, and the newlines inside the values of a table.
Lines(t) == 1 + Cardinality({ i \in 1..Len(t) : t[i] = Newline })
NewlinesIn(rows) ==
    SumSeq([i \in 1..Len(rows) |->
              SumSeq([j \in 1..Len(rows[i]) |->
                        IF rows[i][j] = NullValue THEN 0
                        ELSE Cardinality({ k \in 1..Len(rows[i][j]) : rows[i][j][k] = Newline })])])

\* The string a field is exported as: null as the empty string.
Repr(v) == IF v = NullValue THEN <<>> ELSE v

\* The exported text parses back to the header row and the rows' strings.
RoundTrips ==
    /\ Len(ParseCSV(csv)) = Len(table) + 1
    /\ ParseCSV(csv)[1] = Headers
    /\ \A i \in 1..Len(table) :
          /\ Len(ParseCSV(csv)[i + 1]) = Len(Headers)
          /\ \A j \in 1..Len(Headers) : ParseCSV(csv)[i + 1][j] = Repr(table[i][j])

\* C21 as stated: the export of N rows has N + 1 lines, and parses back to
\* the header row and the string of every field of every row.
C21_ExportHasNPlusOneLines ==
    csv # <<>> => (Lines(csv) = Len(table) + 1 /\ RoundTrips)

\* C21 amended: the export of N >= 1 rows parses as standard CSV to N + 1
\* records, the header row and one per row, with the string of every field
\* of every row (null as the empty string), whatever commas, quotes and
\* newlines the values hold; its text has N + 1 lines and one more for each
\* newline inside a value.
C21_ExportRoundTrips ==
    csv # <<>> => (Lines(csv) = Len(table) + 1 + NewlinesIn(table) /\ RoundTrips)

\* Two rows were exported whose values hold a comma, a quote and a newline.
C21_Witness ==
    /\ csv # <<>>
    /\ Len(table) = MaxRows
    /\ \E i, j \in 1..Len(table) :
          /\ i # j
          /\ Includes(Repr(table[i][2]), Quote) /\ Includes(Repr(table[i][2]), Comma)
          /\ Includes(Repr(table[j][1]), Newline)
          /\ Repr(table[j][2]) = <<Quote, Quote>>

\* ---------------------------------------------------------------- C22
\* C22: in the seeded store, before anything is written, the users are the
\* three demo users with their roles and without temporary password, and a
\* sign-in with the demo credentials of each goes to the dashboard with a
\* session of that user's role.
C22_DemoUsersSignIn ==
    [][ (storage.kind = "doc" /\ saves = 0) =>
          /\ Len(storage.db.users) = 3
          /\ [i \in 1..3 |-> <<storage.db.users[i].email, storage.db.users[i].role>>] =
                << <<"admin@curiata.dev", "Admin">>, <<"supervisor@curiata.dev", "Supervisor">>,
                   <<"viewer@curiata.dev", "Viewer">> >>
          /\ \A i \in 1..3 : storage.db.users[i].tempPassword = NoTemp
          /\ \A i \in 1..3 :
                /\ <<storage.db.users[i].email, storage.db.passwords[storage.db.users[i].email]>>
                      \in DemoLogins
                /\ route = "/login" =>
                      ENABLED doLogin(storage.db.users[i].email,
                                      storage.db.passwords[storage.db.users[i].email])
          /\ \A c \in DemoLogins :
                doLogin(c[1], c[2]) =>
                   /\ route' = "/dashboard"
                   /\ auth'.email = c[1]
                   /\ auth'.role = UserOf(storage.db, c[1]).role
                   /\ auth'.name = UserOf(storage.db, c[1]).name
      ]_vars

\* The seeded viewer has signed in with view123 on the seeded store.
C22_Witness ==
    /\ storage.kind = "doc"
    /\ saves = 0
    /\ route = "/dashboard"
    /\ auth = [email |-> "viewer@curiata.dev", role |-> "Viewer", name |-> "Read Only"]

\* ---------------------------------------------------------------- C23
\* C23: every step leaves the stored receipts and the stored dispatches as
\* they were or puts one new record in front of one of the two, the records
\* already stored keeping their fields and their order; receipts are added
\* only by a receipt save and dispatches only by a dispatch save.
C23_RecordsImmutable ==
    [][ (storage.kind = "doc" /\ storage'.kind = "doc") =>
          LET r == storage.db.warehouse_receipts
              r2 == storage'.db.warehouse_receipts
              d == storage.db.dispatches
              d2 == storage'.db.dispatches
          IN  /\ r2 = r \/ (Len(r2) = Len(r) + 1 /\ Tail(r2) = r)
              /\ d2 = d \/ (Len(d2) = Len(d) + 1 /\ Tail(d2) = d)
              /\ r2 = r \/ d2 = d
              /\ r2 # r => (route = "/receipt" /\ saves' = saves + 1)
              /\ d2 # d => (route = "/dispatch" /\ saves' = saves + 1)
      ]_vars

\* A receipt and a dispatch were saved through the forms, and a trip was
\* added after them.
C23_Witness ==
    /\ storage.kind = "doc"
    /\ Len(storage.db.warehouse_receipts) > SeedReceipts
    /\ Len(storage.db.dispatches) > SeedDispatches
    /\ Len(storage.db.transport_trips) > SeedTrips
    /\ Head(storage.db.transport_trips).id > Head(storage.db.warehouse_receipts).id
    /\ Head(storage.db.transport_trips).id > Head(storage.db.dispatches).id

\* ---------------------------------------------------------------- C24
\* C24: while every saved quantity is a number >= 0, a stored snapshot with
\* status "Dispatched" has quantity 0.
C24_DispatchedMeansEmpty ==
    (storage.kind = "doc" /\ ValidLedger(storage.db)) =>
        \A i \in 1..Len(storage.db.inventory_snapshot) :
            storage.db.inventory_snapshot[i].status = "Dispatched" =>
                storage.db.inventory_snapshot[i].quantity = 0

\* A dispatch of exactly the quantity on hand took a snapshot that was not
\* "Dispatched" to quantity 0 and status "Dispatched".
C24_Witness ==
    /\ storage.kind = "doc"
    /\ ValidLedger(storage.db)
    /\ lastSave.op = "DispatchPage.save"
    /\ HasSnap(before, lastSave.form.cargo_id)
    /\ SnapOf(before, lastSave.form.cargo_id).quantity > 0
    /\ SnapOf(before, lastSave.form.cargo_id).quantity = lastSave.form.quantity
    /\ SnapOf(before, lastSave.form.cargo_id).status # "Dispatched"
    /\ SnapOf(storage.db, lastSave.form.cargo_id).status = "Dispatched"
    /\ SnapOf(storage.db, lastSave.form.cargo_id).quantity = 0

\* ---------------------------------------------------------------- C25
\* C25: without a session the application is at the login page; a step that
\* adds a receipt or a dispatch is taken under a session of role Admin or
\* Supervisor, and a step that adds a user under a session of role Admin.
C25_RoleGating ==
    [][ /\ auth' = NoAuth => route' \in {"boot", "/login"}
        /\ (storage.kind = "doc" /\ storage'.kind = "doc") =>
              /\ storage'.db.warehouse_receipts # storage.db.warehouse_receipts =>
                    (auth.role \in {"Admin", "Supervisor"} /\ auth' = auth)
              /\ storage'.db.dispatches # storage.db.dispatches =>
                    (auth.role \in {"Admin", "Supervisor"} /\ auth' = auth)
              /\ Len(storage'.db.users) # Len(storage.db.users) =>
                    (auth.role = "Admin" /\ auth' = auth)
      ]_vars

\* A viewer is on a gated page of a store to which an administrator added a
\* receipt and a user.
C25_Witness ==
    /\ storage.kind = "doc"
    /\ auth.role = "Viewer"
    /\ route \in {"/receipt", "/dispatch", "/users"}
    /\ Len(storage.db.warehouse_receipts) > SeedReceipts
    /\ Len(storage.db.users) > Len(SeedUsers(0))
====
